---- MODULE Spec2Model ----
(***************************************************************************)
(* tiny-json-path: getTinyJsonPath / setTinyJsonPath.                      *)
(*                                                                         *)
(* A path is a sequence of one-character strings.  The cursor i is the     *)
(* zero-based JavaScript index; path[i] past the end is undefined.         *)
(* A JavaScript value is a record [t, v, s, e, m]:                         *)
(*   t  typeof-like tag: "undefined", "null", "boolean", "number",         *)
(*      "string", "object" (plain object), "array", "function"             *)
(*   v  payload of a number or boolean                                     *)
(*   s  characters of a string                                             *)
(*   e  elements of an array (a hole reads as undefined)                   *)
(*   m  named own properties of an object or array (name -> value)         *)
(* Property names are sequences of characters.  Of the properties a value  *)
(* inherits from its prototype the model has one, the method valueOf,      *)
(* which every value but null and undefined inherits; the accessors        *)
(* __proto__ and length are outside the model: no name over the model's    *)
(* alphabet spells one.                                                    *)
(***************************************************************************)
EXTENDS Integers, Sequences, FiniteSets, TLC

VARIABLES
  obj,      \* the target structure (owned by the caller, mutated in place)
  obj0,     \* the structure as it was when the caller built it
  path,     \* the path string
  value,    \* the value passed to setTinyJsonPath
  pc,       \* where the caller / the running call is
  i,        \* the cursor of the running scan loop
  cur,      \* getTinyJsonPath's current value
  segs,     \* setTinyJsonPath's segment list
  scanEnd,  \* how the tokenization loop ended: "end", "break" or "return"
  loc,      \* setTinyJsonPath's cur, as the property names leading to it
  s,        \* the index of the walk loop
  getRet,   \* what getTinyJsonPath returned
  setRet    \* how setTinyJsonPath ended: "true", "false" or "throw"

vars == <<obj, obj0, path, value, pc, i, cur, segs, scanEnd, loc, s, getRet, setRet>>

---------------------------------------------------------------------------
(* Values *)

EmptyMap == [k \in {} |-> 0]

JsValue(t, v, str, e, m) == [t |-> t, v |-> v, s |-> str, e |-> e, m |-> m]

Undef == JsValue("undefined", 0, <<>>, <<>>, EmptyMap)
Null == JsValue("null", 0, <<>>, <<>>, EmptyMap)
Num(n) == JsValue("number", n, <<>>, <<>>, EmptyMap)
Bool(b) == JsValue("boolean", b, <<>>, <<>>, EmptyMap)
Str(cs) == JsValue("string", 0, cs, <<>>, EmptyMap)
Object(m) == JsValue("object", 0, <<>>, <<>>, m)
Array(e) == JsValue("array", 0, <<>>, e, EmptyMap)

EmptyObject == Object(EmptyMap)
EmptyArray == Array(<<>>)

\* a method found on a prototype
Function == JsValue("function", 0, <<>>, <<>>, EmptyMap)

\* the names found on the prototype of every value but null and undefined
Inherited == {<<"v", "a", "l", "u", "e", "O", "f">>}

\* x == null
IsNullish(x) == x.t \in {"undefined", "null"}

\* typeof x === 'object' (null included, as in JavaScript)
TypeofObject(x) == x.t \in {"object", "array", "null"}

\* Array.isArray(x)
IsArray(x) == x.t = "array"

---------------------------------------------------------------------------
(* Characters and strings *)

\* path[i] for i >= path.length is undefined; a regex test stringifies it
EOF == "undefined"

Letters == {"a", "b", "v", "l", "u", "e", "O", "f"}
Digits == {"0", "1", "2", "3", "4", "5", "6", "7", "8", "9"}
DigitChars == <<"0", "1", "2", "3", "4", "5", "6", "7", "8", "9">>

\* /\s/.test(c)
IsWs(c) == c = " "

\* /[A-Za-z0-9_\-]/.test(c): "undefined" contains letters
IsKeyChar(c) == c \in Letters \cup Digits \cup {"_", "-", EOF}

\* /[0-9]/.test(c)
IsDigit(c) == c \in Digits

CharAt(p, k) == IF k < Len(p) THEN p[k + 1] ELSE EOF

\* p.slice(a, b) for 0 <= a <= b: an end past the length stops at the length
slice(p, a, b) == SubSeq(p, a + 1, IF b > Len(p) THEN Len(p) ELSE b)

NaN == -1

DigitValue(c) == CHOOSE d \in 0..9 : DigitChars[d + 1] = c

RECURSIVE parseInt(_)
\* parseInt(ds, 10) on a run of decimal digits; the empty run gives NaN
parseInt(ds) ==
  IF ds = <<>> THEN NaN
  ELSE IF Len(ds) = 1 THEN DigitValue(ds[1])
  ELSE 10 * parseInt(SubSeq(ds, 1, Len(ds) - 1)) + DigitValue(ds[Len(ds)])

\* Number.isFinite(n)
IsFinite(n) == n # NaN

RECURSIVE ToStr(_)
\* String(n) for an integer n >= 0
ToStr(n) ==
  IF n < 10 THEN <<DigitChars[n + 1]>>
  ELSE ToStr(n \div 10) \o <<DigitChars[(n % 10) + 1]>>

\* a property name that is a canonical array index
IsArrayIndex(name) ==
  /\ name # <<>>
  /\ \A k \in 1..Len(name) : IsDigit(name[k])
  /\ (Len(name) = 1 \/ name[1] # "0")

---------------------------------------------------------------------------
(* Property access: c[name] and c[name] = val *)

\* the property found on the prototype of a value, when it has no own one
FromPrototype(name) == IF name \in Inherited THEN Function ELSE Undef

\* c[name]: an own property, else an inherited one.  The code never reads a
\* property of null or undefined without testing first (the read throws);
\* the model gives undefined there.
PropGet(c, name) ==
  CASE c.t = "object" ->
         IF name \in DOMAIN c.m THEN c.m[name] ELSE FromPrototype(name)
    [] c.t = "array" ->
         IF IsArrayIndex(name)
         THEN IF parseInt(name) < Len(c.e) THEN c.e[parseInt(name) + 1] ELSE Undef
         ELSE IF name \in DOMAIN c.m THEN c.m[name] ELSE FromPrototype(name)
    [] c.t = "string" ->
         IF IsArrayIndex(name)
         THEN IF parseInt(name) < Len(c.s)
              THEN Str(<<c.s[parseInt(name) + 1]>>)
              ELSE Undef
         ELSE FromPrototype(name)
    [] c.t \in {"undefined", "null"} -> Undef
    [] OTHER -> FromPrototype(name)

\* the container is replaced by a fresh one that holds only the property
PropSetFresh(c, name, val) ==
  IF c.t = "array"
  THEN [c EXCEPT !.m = EmptyMap,
                 !.e = IF IsArrayIndex(name)
                       THEN [j \in 1..(parseInt(name) + 1) |->
                               IF j = parseInt(name) + 1 THEN val ELSE Undef]
                       ELSE <<>>]
  ELSE [c EXCEPT !.m = name :> val]

\* c[name] = val for an object or array c
PropSet(c, name, val) ==
  IF c.t = "array" /\ IsArrayIndex(name)
  THEN LET k == parseInt(name)
           n == IF k >= Len(c.e) THEN k + 1 ELSE Len(c.e)
       IN [c EXCEPT !.e = [j \in 1..n |->
                             IF j = k + 1 THEN val
                             ELSE IF j <= Len(c.e) THEN c.e[j] ELSE Undef]]
  ELSE [c EXCEPT !.m = [q \in (DOMAIN c.m) \cup {name} |->
                          IF q = name THEN val ELSE c.m[q]]]

\* the new slots are filled with zero
SetLengthZeroFill(c, n) ==
  [c EXCEPT !.e = [j \in 1..n |-> IF j <= Len(c.e) THEN c.e[j] ELSE Num(0)]]

\* c.length = n for an array c and n >= c.length
SetLength(c, n) ==
  [c EXCEPT !.e = [j \in 1..n |-> IF j <= Len(c.e) THEN c.e[j] ELSE Undef]]

---------------------------------------------------------------------------
(* The cursor helpers shared by both scan loops *)

\* whitespace is not skipped
eatWsNone(p, k) == k

RECURSIVE eatWs(_, _)
\* while (/\s/.test(path[i])) i++
eatWs(p, k) == IF IsWs(CharAt(p, k)) THEN eatWs(p, k + 1) ELSE k

RECURSIVE SkipKeyCharsPastEnd(_, _)
\* the bound of the loop is i <= path.length
SkipKeyCharsPastEnd(p, k) ==
  IF k <= Len(p) /\ IsKeyChar(CharAt(p, k)) THEN SkipKeyCharsPastEnd(p, k + 1) ELSE k

RECURSIVE SkipKeyChars(_, _)
\* while (i < path.length && /[A-Za-z0-9_\-]/.test(path[i])) i++
SkipKeyChars(p, k) ==
  IF k < Len(p) /\ IsKeyChar(CharAt(p, k)) THEN SkipKeyChars(p, k + 1) ELSE k

RECURSIVE SkipToQuote(_, _, _)
\* while (i < path.length && path[i] !== q) s += path[i++]
SkipToQuote(p, k, q) ==
  IF k < Len(p) /\ CharAt(p, k) # q THEN SkipToQuote(p, k + 1, q) ELSE k

RECURSIVE SkipDigits(_, _)
\* while (i < path.length && /[0-9]/.test(path[i])) i++
SkipDigits(p, k) ==
  IF k < Len(p) /\ IsDigit(CharAt(p, k)) THEN SkipDigits(p, k + 1) ELSE k

---------------------------------------------------------------------------
(* getTinyJsonPath: one iteration of its while loop.  The result says how   *)
(* the iteration ends: "continue", "return" (return undefined) or "break". *)

GetOut(st, k, c) == [st |-> st, i |-> k, cur |-> c]

GetDotSegment(p, k, c) ==
  LET start == eatWs(p, k + 1)
      end == SkipKeyChars(p, start)
      key == slice(p, start, end)
  IN IF key = <<>> THEN GetOut("return", end, c)
     ELSE IF IsNullish(c) THEN GetOut("return", end, c)
     ELSE GetOut("continue", end, PropGet(c, key))

GetQuotedKey(p, k, c) ==
  LET q == CharAt(p, k)
      end == SkipToQuote(p, k + 1, q)
      str == slice(p, k + 1, end)
      close == eatWs(p, end + 1)
  IN IF CharAt(p, end) # q THEN GetOut("return", end, c)
     ELSE IF CharAt(p, close) # "]" THEN GetOut("return", close, c)
     ELSE IF IsNullish(c) THEN GetOut("return", close + 1, c)
     ELSE GetOut("continue", close + 1, PropGet(c, str))

\* the element one past the index is read
GetIndexOffByOne(p, k, c) ==
  LET end == SkipDigits(p, k)
      idx == parseInt(slice(p, k, end))
      close == eatWs(p, end)
  IN IF CharAt(p, close) # "]" \/ ~IsFinite(idx) THEN GetOut("return", close, c)
     ELSE IF ~IsArray(c) THEN GetOut("return", close + 1, c)
     ELSE GetOut("continue", close + 1, PropGet(c, ToStr(idx + 1)))

GetIndex(p, k, c) ==
  LET end == SkipDigits(p, k)
      idx == parseInt(slice(p, k, end))
      close == eatWs(p, end)
  IN IF CharAt(p, close) # "]" \/ ~IsFinite(idx) THEN GetOut("return", close, c)
     ELSE IF ~IsArray(c) THEN GetOut("return", close + 1, c)
     ELSE GetOut("continue", close + 1, PropGet(c, ToStr(idx)))

GetIter(p, k0, c) ==
  LET k == eatWs(p, k0)
  IN IF CharAt(p, k) = "." THEN GetDotSegment(p, k, c)
     ELSE IF CharAt(p, k) = "["
     THEN LET a == eatWs(p, k + 1)
          IN IF CharAt(p, a) \in {"\"", "'"}
             THEN GetQuotedKey(p, a, c)
             ELSE GetIndex(p, a, c)
     ELSE IF IsWs(CharAt(p, k)) THEN GetOut("continue", k + 1, c)
     ELSE GetOut("break", k, c)

RECURSIVE GetLoopRun(_, _, _)
\* the while loop run to its end: the value getTinyJsonPath returns
GetLoopRun(p, k, c) ==
  IF k < Len(p)
  THEN LET r == GetIter(p, k, c)
       IN IF r.st = "continue" THEN GetLoopRun(p, r.i, r.cur)
          ELSE IF r.st = "return" THEN Undef
          ELSE r.cur
  ELSE c

\* only the empty path is rejected
BadRootEmptyOnly(p) == p = <<>>

\* !path || path[0] !== '$'
BadRoot(p) == p = <<>> \/ p[1] # "$"

getTinyJsonPath(o, p) == IF BadRoot(p) THEN Undef ELSE GetLoopRun(p, 1, o)

---------------------------------------------------------------------------
(* setTinyJsonPath, first pass: one iteration of the tokenization loop.    *)

KeySeg(key) == [type |-> "key", key |-> key, index |-> NaN]
IndexSeg(idx) == [type |-> "index", key |-> <<>>, index |-> idx]

ScanOut(st, k, sg) == [st |-> st, i |-> k, segs |-> sg]

\* the test of the empty key is dropped
SetDotSegmentAllowEmpty(p, k, sg) ==
  LET start == eatWs(p, k + 1)
      end == SkipKeyChars(p, start)
  IN ScanOut("continue", end, Append(sg, KeySeg(slice(p, start, end))))

SetDotSegment(p, k, sg) ==
  LET start == eatWs(p, k + 1)
      end == SkipKeyChars(p, start)
      key == slice(p, start, end)
  IN IF key = <<>> THEN ScanOut("return", end, sg)
     ELSE ScanOut("continue", end, Append(sg, KeySeg(key)))

\* the closing bracket is not required
SetQuotedKeyNoBracket(p, k, sg) ==
  LET q == CharAt(p, k)
      end == SkipToQuote(p, k + 1, q)
      str == slice(p, k + 1, end)
      close == eatWs(p, end + 1)
  IN IF CharAt(p, end) # q THEN ScanOut("return", end, sg)
     ELSE IF CharAt(p, close) # "]" THEN ScanOut("continue", close, Append(sg, KeySeg(str)))
     ELSE ScanOut("continue", close + 1, Append(sg, KeySeg(str)))

SetQuotedKey(p, k, sg) ==
  LET q == CharAt(p, k)
      end == SkipToQuote(p, k + 1, q)
      str == slice(p, k + 1, end)
      close == eatWs(p, end + 1)
  IN IF CharAt(p, end) # q THEN ScanOut("return", end, sg)
     ELSE IF CharAt(p, close) # "]" THEN ScanOut("return", close, sg)
     ELSE ScanOut("continue", close + 1, Append(sg, KeySeg(str)))

SetIndex(p, k, sg) ==
  LET end == SkipDigits(p, k)
      idx == parseInt(slice(p, k, end))
      close == eatWs(p, end)
  IN IF CharAt(p, close) # "]" \/ ~IsFinite(idx) THEN ScanOut("return", close, sg)
     ELSE ScanOut("continue", close + 1, Append(sg, IndexSeg(idx)))

SetScanIter(p, k0, sg) ==
  LET k == eatWs(p, k0)
  IN IF CharAt(p, k) = "." THEN SetDotSegment(p, k, sg)
     ELSE IF CharAt(p, k) = "["
     THEN LET a == eatWs(p, k + 1)
          IN IF CharAt(p, a) \in {"\"", "'"}
             THEN SetQuotedKey(p, a, sg)
             ELSE SetIndex(p, a, sg)
     ELSE IF IsWs(CharAt(p, k)) THEN ScanOut("continue", k + 1, sg)
     ELSE ScanOut("break", k, sg)

RECURSIVE Tokenize(_, _, _)
\* the tokenization loop run to its end
Tokenize(p, k, sg) ==
  IF k < Len(p)
  THEN LET r == SetScanIter(p, k, sg)
       IN IF r.st = "continue" THEN Tokenize(p, r.i, r.segs) ELSE r
  ELSE ScanOut("end", k, sg)

---------------------------------------------------------------------------
(* setTinyJsonPath, second pass.  cur is a reference into the structure:   *)
(* the model keeps the property names leading to it from the root (loc).   *)

RECURSIVE At(_, _)
\* the value reached from v along the property names l
At(v, l) == IF l = <<>> THEN v ELSE At(PropGet(v, Head(l)), Tail(l))

RECURSIVE ReplaceAt(_, _, _)
\* v after the node reached along l has become node (in-place mutation)
ReplaceAt(v, l, node) ==
  IF l = <<>> THEN node
  ELSE PropSet(v, Head(l), ReplaceAt(PropGet(v, Head(l)), Tail(l), node))

\* the property name a segment addresses: seg.key, or String(seg.index)
PropName(seg) == IF seg.type = "index" THEN ToStr(seg.index) ELSE seg.key

\* the lookahead is dropped: always a plain object
NewContainerNoLookahead(next) == EmptyObject

\* (next.type === 'index') ? [] : {}
NewContainer(next) == IF next.type = "index" THEN EmptyArray ELSE EmptyObject

WalkOut(st, o, l) == [st |-> st, obj |-> o, loc |-> l]

\* the body shared in shape by both branches: cur[name] == null ? create
\* : typeof cur[name] !== 'object' ? return false : descend
\* the typeof test is dropped: the walk descends into a primitive
WalkKeyNoTypeCheck(o, l, seg, next) ==
  LET c == At(o, l)
      name == seg.key
  IN IF IsNullish(c) THEN WalkOut("throw", o, l)
     ELSE IF IsNullish(PropGet(c, name))
     THEN IF c.t \in {"object", "array"}
          THEN WalkOut("next", ReplaceAt(o, l, PropSet(c, name, NewContainer(next))),
                       Append(l, name))
          ELSE WalkOut("throw", o, l)
     ELSE WalkOut("next", o, Append(l, name))

WalkKey(o, l, seg, next) ==
  LET c == At(o, l)
      name == seg.key
  IN IF IsNullish(c) THEN WalkOut("throw", o, l)
     ELSE IF IsNullish(PropGet(c, name))
     THEN IF c.t \in {"object", "array"}
          THEN WalkOut("next", ReplaceAt(o, l, PropSet(c, name, NewContainer(next))),
                       Append(l, name))
          ELSE WalkOut("throw", o, l)
     ELSE IF ~TypeofObject(PropGet(c, name)) THEN WalkOut("false", o, l)
     ELSE WalkOut("next", o, Append(l, name))

WalkIndex(o, l, seg, next) ==
  LET c == At(o, l)
      idx == seg.index
      name == ToStr(idx)
  IN IF ~IsArray(c) THEN WalkOut("false", o, l)
     ELSE IF idx < 0 THEN WalkOut("false", o, l)
     ELSE IF IsNullish(PropGet(c, name))
     THEN WalkOut("next", ReplaceAt(o, l, PropSet(c, name, NewContainer(next))),
                  Append(l, name))
     ELSE IF ~TypeofObject(PropGet(c, name)) THEN WalkOut("false", o, l)
     ELSE WalkOut("next", o, Append(l, name))

\* one iteration of for (let s = 0; s < segs.length - 1; s++), s zero-based
SetWalkIter(o, l, sg, k) ==
  IF sg[k + 1].type = "key"
  THEN WalkKey(o, l, sg[k + 1], sg[k + 2])
  ELSE WalkIndex(o, l, sg[k + 1], sg[k + 2])

FinalKey(o, l, last, val) ==
  LET c == At(o, l)
  IN IF IsNullish(c) \/ ~TypeofObject(c) THEN WalkOut("false", o, l)
     ELSE WalkOut("true", ReplaceAt(o, l, PropSet(c, last.key, val)), l)

FinalIndex(o, l, last, val) ==
  LET c == At(o, l)
      idx == last.index
      grown == IF idx >= Len(c.e) THEN SetLength(c, idx + 1) ELSE c
  IN IF ~IsArray(c) THEN WalkOut("false", o, l)
     ELSE IF idx < 0 THEN WalkOut("false", o, l)
     ELSE WalkOut("true", ReplaceAt(o, l, PropSet(grown, ToStr(idx), val)), l)

\* the final segment assignment
SetFinalStep(o, l, last, val) ==
  IF last.type = "key" THEN FinalKey(o, l, last, val) ELSE FinalIndex(o, l, last, val)

RECURSIVE SetWalkRun(_, _, _, _, _)
\* the second pass run to its end
SetWalkRun(o, l, sg, k, val) ==
  IF k < Len(sg) - 1
  THEN LET r == SetWalkIter(o, l, sg, k)
       IN IF r.st = "next" THEN SetWalkRun(r.obj, r.loc, sg, k + 1, val) ELSE r
  ELSE SetFinalStep(o, l, sg[Len(sg)], val)

\* the whole call: [st |-> "true" | "false" | "throw", obj |-> the structure after]
setTinyJsonPath(o, p, val) ==
  IF BadRoot(p) THEN WalkOut("false", o, <<>>)
  ELSE LET tk == Tokenize(p, 1, <<>>)
       IN IF tk.st = "return" THEN WalkOut("false", o, <<>>)
          ELSE IF Len(tk.segs) = 0 THEN WalkOut("false", o, <<>>)
          ELSE SetWalkRun(o, <<>>, tk.segs, 0, val)

---------------------------------------------------------------------------
(* Inputs *)

MaxArrayLen == 1
MaxSegs == 3
MaxChars == 4
MaxBracketChars == 5
MaxLiveChars == 3

RECURSIVE SeqsUpTo(_, _)
\* the sequences over S of length at most n
SeqsUpTo(S, n) ==
  IF n = 0 THEN {<<>>}
  ELSE LET shorter == SeqsUpTo(S, n - 1)
       IN shorter \cup {Append(q, x) : q \in {r \in shorter : Len(r) = n - 1}, x \in S}

Leaves == {Undef, Null, Num(1), Bool(1), Str(<<"a">>)}

\* plain objects with at most the one key "a", holding a value of S
ObjectsOver(S) == {EmptyObject} \cup {Object(<<"a">> :> x) : x \in S}

\* arrays of at most n elements of S
ArraysOver(S, n) == {Array(e) : e \in SeqsUpTo(S, n)}

\* depth at most two; only an array of primitives has more than one element
Level0 == Leaves \cup {EmptyObject, EmptyArray}
Level1 ==
  Leaves \cup ObjectsOver(Level0) \cup ArraysOver(Level0, 1)
    \cup ArraysOver(Leaves, MaxArrayLen)
Structures == Leaves \cup ObjectsOver(Level1) \cup ArraysOver(Level1, 1)

\* well-formed segments, as the caller writes them
Pieces ==
  { <<".", "a">>, <<".", "1">>, <<"[", "0", "]">>, <<"[", "3", "]">>,
    <<".", "v", "a", "l", "u", "e", "O", "f">> }

RECURSIVE Concat(_)
Concat(ps) == IF ps = <<>> THEN <<>> ELSE Head(ps) \o Concat(Tail(ps))

\* the segments of the longest paths
LongPieces == Pieces \ { <<".", "1">> }

\* every path of one or two segments, and the longer ones over LongPieces
GoodPaths ==
  {<<"$">> \o Concat(ps) : ps \in SeqsUpTo(Pieces, 2) \cup SeqsUpTo(LongPieces, MaxSegs)}

\* a well-formed path of at most two segments with its root marker dropped,
\* or with a dangling dot
BrokenPaths ==
  LET short == {<<"$">> \o Concat(ps) : ps \in SeqsUpTo(Pieces, 2)}
  IN {Tail(p) : p \in short} \cup {Append(p, ".") : p \in short}

SegPaths == GoodPaths \cup BrokenPaths

Alphabet == {".", "[", "]", "'", "\\", " ", "a", "0"}

BracketAlphabet == {"'", "\"", "\\", "]", " "}

\* every string of the alphabet after "$", the strings without the root
\* marker, and every string of the bracket alphabet after "$["
CharPaths ==
  {<<"$">> \o q : q \in SeqsUpTo(Alphabet, MaxChars)}
    \cup SeqsUpTo(Alphabet, 2)
    \cup {<<"$", "[">> \o q : q \in SeqsUpTo(BracketAlphabet, MaxBracketChars)}

\* the shortest strings after "$", and the well-formed paths of two segments
LivePaths ==
  {<<"$">> \o q : q \in SeqsUpTo(Alphabet, MaxLiveChars)}
    \cup {<<"$">> \o Concat(ps) : ps \in SeqsUpTo(Pieces, 2)}

CharStructures ==
  { Object((<<"a">> :> Array(<<Num(1)>>)) @@ (<<"\\">> :> Num(2))),
    Array(<<Object(<<"a">> :> Num(1))>>) }

Values == {Num(7), EmptyObject}

---------------------------------------------------------------------------
(* The caller and the two calls, one loop iteration per step *)

Start ==
  /\ obj0 = obj
  /\ value = Undef
  /\ pc = "idle"
  /\ i = 0
  /\ cur = Undef
  /\ segs = <<>>
  /\ scanEnd = "none"
  /\ loc = <<>>
  /\ s = 0
  /\ getRet = Undef
  /\ setRet = "none"

Init == obj \in Structures /\ path \in SegPaths /\ Start

InitChars == obj \in CharStructures /\ path \in CharPaths /\ Start

InitLive == obj \in CharStructures /\ path \in LivePaths /\ Start

\* getTinyJsonPath(obj, path) is called, first or after a setTinyJsonPath
GetCall ==
  /\ pc \in {"idle", "set_done"}
  /\ IF BadRoot(path)
     THEN pc' = "get_done" /\ getRet' = Undef /\ UNCHANGED <<i, cur>>
     ELSE pc' = "get_loop" /\ i' = 1 /\ cur' = obj /\ UNCHANGED getRet
  /\ UNCHANGED <<obj, obj0, path, value, segs, scanEnd, loc, s, setRet>>

\* the test of getTinyJsonPath's while loop and one iteration of it
GetLoop ==
  /\ pc = "get_loop"
  /\ IF i < Len(path)
     THEN LET r == GetIter(path, i, cur)
          IN /\ i' = r.i
             /\ cur' = r.cur
             /\ pc' = IF r.st = "continue" THEN "get_loop" ELSE "get_done"
             /\ getRet' = IF r.st = "return" THEN Undef
                          ELSE IF r.st = "break" THEN r.cur ELSE getRet
     ELSE pc' = "get_done" /\ getRet' = cur /\ UNCHANGED <<i, cur>>
  /\ UNCHANGED <<obj, obj0, path, value, segs, scanEnd, loc, s, setRet>>

\* setTinyJsonPath(obj, path, v) is called
SetCall ==
  /\ pc = "idle"
  /\ \E v \in Values : value' = v
  /\ IF BadRoot(path)
     THEN pc' = "set_done" /\ setRet' = "false" /\ UNCHANGED <<i, segs>>
     ELSE pc' = "set_scan" /\ i' = 1 /\ segs' = <<>> /\ UNCHANGED setRet
  /\ UNCHANGED <<obj, obj0, path, cur, scanEnd, loc, s, getRet>>

\* the test of the tokenization loop and one iteration of it; when the loop
\* is left, the check segs.length === 0 and the start of the second pass
SetTokenize ==
  /\ pc = "set_scan"
  /\ LET r == IF i < Len(path) THEN SetScanIter(path, i, segs)
              ELSE ScanOut("end", i, segs)
     IN /\ i' = r.i
        /\ segs' = r.segs
        /\ IF r.st = "continue"
           THEN UNCHANGED <<pc, scanEnd, setRet, loc, s>>
           ELSE /\ scanEnd' = r.st
                /\ IF r.st = "return" \/ Len(r.segs) = 0
                   THEN pc' = "set_done" /\ setRet' = "false" /\ UNCHANGED <<loc, s>>
                   ELSE pc' = "set_walk" /\ loc' = <<>> /\ s' = 0 /\ UNCHANGED setRet
  /\ UNCHANGED <<obj, obj0, path, value, cur, getRet>>

\* one iteration of the walk/create loop
SetWalk ==
  /\ pc = "set_walk"
  /\ s < Len(segs) - 1
  /\ LET r == SetWalkIter(obj, loc, segs, s)
     IN /\ obj' = r.obj
        /\ loc' = r.loc
        /\ IF r.st = "next"
           THEN s' = s + 1 /\ UNCHANGED <<pc, setRet>>
           ELSE pc' = "set_done" /\ setRet' = r.st /\ UNCHANGED s
  /\ UNCHANGED <<obj0, path, value, i, cur, segs, scanEnd, getRet>>

\* the final segment assignment
SetFinal ==
  /\ pc = "set_walk"
  /\ s >= Len(segs) - 1
  /\ LET r == SetFinalStep(obj, loc, segs[Len(segs)], value)
     IN /\ obj' = r.obj
        /\ setRet' = r.st
        /\ pc' = "set_done"
  /\ UNCHANGED <<obj0, path, value, i, cur, segs, scanEnd, loc, s, getRet>>

Next == GetCall \/ GetLoop \/ SetCall \/ SetTokenize \/ SetWalk \/ SetFinal

\* the paths a caller writes, over every structure of depth two
Spec == Init /\ [][Next]_vars

\* every short string as a path, over two structures
SpecChars == InitChars /\ [][Next]_vars

\* short strings as paths, with each call running on once it has been made:
\* the calls are synchronous, nothing suspends a loop between two iterations
SpecLive ==
  /\ InitLive
  /\ [][Next]_vars
  /\ WF_vars(GetLoop)
  /\ WF_vars(SetTokenize)
  /\ WF_vars(SetWalk)
  /\ WF_vars(SetFinal)

---------------------------------------------------------------------------
(* Properties *)

C2_AllOrNothing == setRet = "false" => obj = obj0

\* C2 as amended: whenever setTinyJsonPath has returned false the structure
\* equals what it was before the call, unless the walk failed at a non-final
\* key segment that names an inherited property, inside a container the same
\* call created.
C2_AllOrNothingUnlessInherited ==
  setRet = "false" =>
    \/ obj = obj0
    \/ /\ scanEnd \in {"end", "break"}
       /\ 1 <= s /\ s < Len(segs) - 1
       /\ IsNullish(At(obj0, loc))
       /\ segs[s + 1].type = "key"
       /\ segs[s + 1].key \in Inherited

\* a structural conflict met after the walk has descended into the structure
C2_Witness ==
  /\ pc = "set_done"
  /\ setRet = "false"
  /\ scanEnd = "end"
  /\ s >= 1
  /\ loc # <<>>

\* C3: a path that is empty or whose first character is not "$" makes
\* getTinyJsonPath return undefined and setTinyJsonPath return false, and
\* the structure is unchanged.
C3_MissingRoot ==
  (path = <<>> \/ path[1] # "$") =>
    /\ pc = "get_done" => getRet = Undef
    /\ setRet \in {"none", "false"}
    /\ pc \in {"idle", "get_done", "set_done"}
    /\ obj = obj0

\* both calls made with a non-empty path that lacks the root marker
C3_Witness ==
  /\ path # <<>>
  /\ path[1] # "$"
  /\ pc = "get_done"
  /\ setRet = "false"

\* the segment of this walk step addresses an absent position of a container
\* it can address
AbsentChild ==
  LET c == At(obj, loc)
      seg == segs[s + 1]
  IN /\ IF seg.type = "key" THEN c.t \in {"object", "array"} ELSE IsArray(c)
     /\ IsNullish(PropGet(c, PropName(seg)))

\* C4: lookahead container creation.  When a non-final segment addresses an
\* absent position (missing, undefined or null) of a container it can
\* address, the step puts there an empty array if the next segment is an
\* index segment and an empty plain object otherwise, and descends into it.
C4_Lookahead ==
  [][(pc = "set_walk" /\ s < Len(segs) - 1 /\ AbsentChild) =>
       /\ pc' = "set_walk"
       /\ s' = s + 1
       /\ loc' = Append(loc, PropName(segs[s + 1]))
       /\ At(obj', loc') =
            (IF segs[s + 2].type = "index" THEN EmptyArray ELSE EmptyObject)]_vars

\* an index segment met a null element and an array was created there
C4_Witness ==
  /\ pc = "set_walk"
  /\ s = 1
  /\ segs[1].type = "index"
  /\ At(obj0, loc) = Null
  /\ At(obj, loc) = EmptyArray

\* C5: array growth.  When the final segment is an index i applied to an
\* array of length n <= i, the array then has length i + 1, element i is the
\* value, the elements below n are unchanged and the slots from n to i - 1
\* are undefined.
C5_ArrayGrowth ==
  [][(/\ pc = "set_walk"
      /\ s >= Len(segs) - 1
      /\ segs[Len(segs)].type = "index"
      /\ IsArray(At(obj, loc))
      /\ Len(At(obj, loc).e) <= segs[Len(segs)].index) =>
       LET old == At(obj, loc).e
           new == At(obj', loc).e
           idx == segs[Len(segs)].index
       IN /\ setRet' = "true"
          /\ Len(new) = idx + 1
          /\ new[idx + 1] = value
          /\ \A j \in 1..Len(old) : new[j] = old[j]
          /\ \A j \in (Len(old) + 1)..idx : new[j] = Undef]_vars

\* an array that held elements has grown by more than one slot
C5_Witness ==
  /\ pc = "set_done"
  /\ setRet = "true"
  /\ segs[Len(segs)].type = "index"
  /\ IsArray(At(obj0, loc))
  /\ Len(At(obj0, loc).e) >= 1
  /\ Len(At(obj, loc).e) >= Len(At(obj0, loc).e) + 2

\* positions of the structure, named by the first k segments
IsPrimitive(x) == x.t \in {"number", "string", "boolean"}

Prefix(sg, k) == [j \in 1..k |-> PropName(sg[j])]

\* C6: primitive conflict.  setTinyJsonPath returns false whenever a
\* non-final segment, key or index, addresses a position that holds a
\* number, a string or a boolean.
C6_PrimitiveConflict ==
  (/\ pc = "set_done"
   /\ scanEnd \in {"end", "break"}
   /\ \E k \in 1..(Len(segs) - 1) : IsPrimitive(At(obj0, Prefix(segs, k)))) =>
    setRet = "false"

\* an index segment that is not the first addresses a primitive element
C6_Witness ==
  /\ pc = "set_done"
  /\ Len(segs) >= 3
  /\ segs[2].type = "index"
  /\ IsArray(At(obj0, Prefix(segs, 1)))
  /\ IsPrimitive(At(obj0, Prefix(segs, 2)))
  /\ setRet = "false"

\* C7: trailing unrecognized characters fail assignment.  When the
\* tokenization loop stops before the end of the path at a character that is
\* neither ".", "[" nor whitespace, setTinyJsonPath returns false and the
\* structure is unchanged.
C7_TrailingFails ==
  (pc = "set_done" /\ scanEnd = "break" /\ i < Len(path)) =>
    (setRet = "false" /\ obj = obj0)

\* p without its k-th character
Remove(p, k) == SubSeq(p, 1, k - 1) \o SubSeq(p, k + 1, Len(p))

RECURSIVE QuoteAt(_, _)
\* the quote character that is open after the first n characters of p, or ""
QuoteAt(p, n) ==
  IF n = 0 THEN ""
  ELSE LET open == QuoteAt(p, n - 1)
       IN IF open = "" THEN (IF p[n] \in {"'", "\""} THEN p[n] ELSE "")
          ELSE IF p[n] = open THEN "" ELSE open

\* a whitespace character may become the k-th character of the new path
Permitted(p, k) ==
  /\ k >= 2
  /\ p[1] = "$"
  /\ QuoteAt(p, k - 1) = ""
  /\ \/ k = 2
     \/ k = Len(p) + 1
     \/ p[k - 1] \in {".", "["}
     \/ p[k] \in {".", "[", "]"}

\* C8: whitespace insensitivity.  For a path p and the path p' obtained by
\* inserting a whitespace character where the grammar permits it (after "$",
\* before a segment, after a dot, just inside "[" and just before "]", at the
\* end), both calls give the same result on p and on p'.  The state holds
\* p'; p is p' without one of its whitespace characters.
C8_Whitespace ==
  pc \in {"get_done", "set_done"} =>
  \A k \in 1..Len(path) :
    (IsWs(path[k]) /\ Permitted(Remove(path, k), k)) =>
      LET p == Remove(path, k)
          r == setTinyJsonPath(obj0, p, value)
      IN /\ pc = "get_done" => getRet = getTinyJsonPath(obj, p)
         /\ pc = "set_done" => (setRet = r.st /\ obj = r.obj)

\* an assignment succeeded through a path with whitespace just inside "["
C8_Witness ==
  /\ pc = "set_done"
  /\ setRet = "true"
  /\ \E k \in 3..Len(path) :
       /\ IsWs(path[k])
       /\ path[k - 1] = "["
       /\ Permitted(Remove(path, k), k)

\* the scanner reaches a bracketed quoted-key segment whose first matching
\* quote is preceded by a backslash: "[" at o, the opening quote at a, the
\* backslash at b - 1 and the quote at b
EscapedQuoteSegment(p, o, a, b) ==
  /\ 1 < o /\ o < a /\ a < b - 1
  /\ p[b - 1] = "\\"
  /\ p[b] \in {"'", "\""}
  /\ p[a] = p[b]
  /\ p[o] = "["
  /\ p[1] = "$"
  /\ \A j \in (o + 1)..(a - 1) : IsWs(p[j])
  /\ \A j \in (a + 1)..(b - 1) : p[j] # p[a]
  /\ Tokenize(SubSeq(p, 1, o - 1), 1, <<>>).st = "end"

\* the quote at b is followed, after optional whitespace, by "]"
BracketAfter(p, b) ==
  \E c \in (b + 1)..Len(p) : p[c] = "]" /\ \A j \in (b + 1)..(c - 1) : IsWs(p[j])

\* the positions of the escaped quotes that close a quoted key of p
EscapedQuotes(p) ==
  {b \in 4..Len(p) :
     /\ p[b - 1] = "\\"
     /\ p[b] \in {"'", "\""}
     /\ \E a \in 3..(b - 2) :
          /\ p[a] = p[b]
          /\ \E o \in 2..(a - 1) : EscapedQuoteSegment(p, o, a, b)}

\* C9 as stated (no escaping): every path with a quoted key closed by an
\* escaped quote makes getTinyJsonPath return undefined and setTinyJsonPath
\* return false, whatever follows the escaped quote.
C9_EscapedQuoteFails ==
  (pc \in {"get_done", "set_done"} /\ EscapedQuotes(path) # {}) =>
    /\ pc = "get_done" => getRet = Undef
    /\ pc = "set_done" => setRet = "false"

\* C9 as amended: both calls fail unless the quote that closes the string is
\* followed, after optional whitespace, by "]".
C9_EscapedQuoteFailsUnlessClosed ==
  (/\ pc \in {"get_done", "set_done"}
   /\ \E b \in EscapedQuotes(path) : ~BracketAfter(path, b)) =>
    /\ pc = "get_done" => getRet = Undef
    /\ pc = "set_done" => setRet = "false"

\* an assignment failed on an escaped quote followed by more of the key
C9_Witness ==
  /\ pc = "set_done"
  /\ setRet = "false"
  /\ scanEnd = "return"
  /\ \E b \in EscapedQuotes(path) : ~BracketAfter(path, b) /\ b < Len(path)

\* C10: no exception channel.  setTinyJsonPath ends by returning true or
\* false for every root value and path; with a null, undefined or primitive
\* root and two or more segments it returns false.
C10_NoException ==
  pc = "set_done" =>
    /\ setRet \in {"true", "false"}
    /\ (Len(segs) >= 2 /\ scanEnd # "return" /\ obj0.t \notin {"object", "array"}) =>
         setRet = "false"

\* C14: partial mutation on late failure.  A failure in tokenization, at the
\* root marker or for want of segments leaves the structure as it was; when
\* the walk fails inside a container the same call created, false is
\* returned and the created container is still in the structure, empty and
\* of the kind the failing segment asked for.
C14_PartialMutation ==
  setRet = "false" =>
    /\ (scanEnd \notin {"end", "break"} \/ Len(segs) = 0) => obj = obj0
    /\ (scanEnd \in {"end", "break"} /\ loc # <<>> /\ IsNullish(At(obj0, loc))) =>
         /\ obj # obj0
         /\ At(obj, loc) =
              (IF segs[s + 1].type = "index" THEN EmptyArray ELSE EmptyObject)

\* the walk created a container inside an array and failed at the segment
\* after it
C14_Witness ==
  /\ pc = "set_done"
  /\ setRet = "false"
  /\ s = 1
  /\ IsArray(obj0)
  /\ IsNullish(At(obj0, loc))
  /\ At(obj, loc) = EmptyObject
  /\ obj # obj0

\* the segment the cursor stands before, as a one-element list; empty when
\* no well-formed segment starts there
SegmentAt(p, k) ==
  LET r == SetScanIter(p, k, <<>>)
  IN IF r.st = "continue" THEN r.segs ELSE <<>>

\* C11: lookup short-circuit.  getTinyJsonPath returns undefined as soon as
\* a key segment is applied while the current value is null or undefined, or
\* an index segment while the current value is not an array; otherwise the
\* current value moves to the addressed child, a missing property or an
\* out-of-range index giving undefined; at the end of the path the current
\* value is returned.
C11_ShortCircuit ==
  [][pc = "get_loop" =>
       IF i >= Len(path)
       THEN pc' = "get_done" /\ getRet' = cur
       ELSE \A k \in 1..Len(SegmentAt(path, i)) :
              LET seg == SegmentAt(path, i)[k]
                  stops == IF seg.type = "key" THEN IsNullish(cur) ELSE ~IsArray(cur)
                  child == IF seg.type = "key" THEN At(cur, <<seg.key>>)
                           ELSE IF seg.index < Len(cur.e) THEN cur.e[seg.index + 1]
                           ELSE Undef
              IN IF stops
                 THEN pc' = "get_done" /\ getRet' = Undef
                 ELSE pc' = "get_loop" /\ cur' = child]_vars

\* below the root, an index segment met a plain object and the lookup
\* returned undefined
C11_Witness ==
  /\ pc = "get_done"
  /\ setRet = "none"
  /\ getRet = Undef
  /\ cur.t = "object"
  /\ cur # obj
  /\ path[i] = "]"

\* the container the k-th segment is applied to, in the structure o
ContainerOf(o, k) == At(o, Prefix(segs, k - 1))

\* C12: in every call of setTinyJsonPath that returns true each
\* container a key segment was applied to is a plain object and each
\* container an index segment was applied to is an array; a key segment
\* addressing an existing array, or an index segment addressing an existing
\* plain object, makes the call return false.
C12_TypeCompatible ==
  (pc = "set_done" /\ scanEnd \in {"end", "break"}) =>
    /\ setRet = "true" =>
         \A k \in 1..Len(segs) :
           ContainerOf(obj, k).t = (IF segs[k].type = "key" THEN "object" ELSE "array")
    /\ (\E k \in 1..Len(segs) :
          \/ segs[k].type = "key" /\ ContainerOf(obj0, k).t = "array"
          \/ segs[k].type = "index" /\ ContainerOf(obj0, k).t = "object") =>
         setRet = "false"

\* after optional whitespace the cursor k meets a dot that no key character
\* follows
EmptyDotKeyAt(p, k) ==
  LET a == eatWs(p, k)
      b == eatWs(p, a + 1)
  IN /\ CharAt(p, a) = "."
     /\ (b >= Len(p) \/ p[b + 1] \notin Letters \cup Digits \cup {"_", "-"})

\* after optional whitespace the cursor k meets a bracket, a quote and the
\* same quote again
EmptyQuotedKeyAt(p, k) ==
  LET a == eatWs(p, k)
      b == eatWs(p, a + 1)
  IN /\ CharAt(p, a) = "["
     /\ b + 1 < Len(p)
     /\ p[b + 1] \in {"'", "\""}
     /\ p[b + 2] = p[b + 1]

\* the call in progress ends here with undefined (lookup) or false
FailsNow ==
  \/ pc = "get_loop" /\ pc' = "get_done" /\ getRet' = Undef
  \/ pc = "set_scan" /\ pc' = "set_done" /\ setRet' = "false"

\* C13 as stated: every key segment the scanner produces carries a non-empty
\* string and every index segment a non-negative integer; a path whose dot
\* key or quoted key is empty makes getTinyJsonPath return undefined and
\* setTinyJsonPath return false.
C13_WellFormed ==
  [][/\ \A k \in 1..Len(segs') :
          IF segs'[k].type = "key" THEN segs'[k].key # <<>> ELSE segs'[k].index \in Nat
     /\ (/\ pc \in {"get_loop", "set_scan"}
         /\ i < Len(path)
         /\ (EmptyDotKeyAt(path, i) \/ EmptyQuotedKeyAt(path, i))) => FailsNow]_vars

\* C13 as amended: every key segment produced from a dot bareword carries a
\* non-empty string and every index segment a non-negative integer; a key
\* segment is empty only when it comes from an empty quoted string; a path
\* whose dot key is empty makes getTinyJsonPath return undefined and
\* setTinyJsonPath return false.
C13_WellFormedDotKeys ==
  [][/\ (pc = "set_scan" /\ Len(segs') = Len(segs) + 1) =>
          LET seg == segs'[Len(segs')]
          IN /\ CharAt(path, eatWs(path, i)) = "." =>
                  (seg.type = "key" /\ seg.key # <<>>)
             /\ seg.type = "index" => seg.index \in Nat
             /\ (seg.type = "key" /\ seg.key = <<>>) => EmptyQuotedKeyAt(path, i)
     /\ (/\ pc \in {"get_loop", "set_scan"}
         /\ i < Len(path)
         /\ EmptyDotKeyAt(path, i)) => FailsNow]_vars

\* after a well-formed segment, an empty dot key made the assignment fail
C13_Witness ==
  /\ pc = "set_done"
  /\ setRet = "false"
  /\ scanEnd = "return"
  /\ Len(segs) >= 1
  /\ \E k \in 1..(Len(path) - 1) : EmptyDotKeyAt(path, k) /\ i >= k

\* two values to look up in: in the array no segment stops the lookup, in
\* the plain object an index segment does and a key segment does not
Probes ==
  { [Array(<<Num(1)>>) EXCEPT !.m = (<<"a">> :> Num(2))],
    Object((<<"a">> :> Num(2)) @@ (<<"0">> :> Num(3))) }

\* C15: shared tokenizer.  From every cursor position of every path, one
\* iteration of the scan loop of getTinyJsonPath and one iteration of the
\* tokenization loop of setTinyJsonPath stop at the same cursor position,
\* report a scan error on the same paths, break on the same paths, and
\* recognize the same segment: the lookup moves to the child the segment of
\* the tokenizer names, or stops where that is an index segment and the
\* current value is not an array.  A property of the path alone: it is
\* evaluated once for each path, before the calls.
C15_SharedTokenizer ==
  pc = "idle" =>
  \A k \in 1..(Len(path) - 1) :
    \A c \in Probes :
      LET g == GetIter(path, k, c)
          r == SetScanIter(path, k, <<>>)
      IN /\ g.i = r.i
         /\ CASE r.st = "return" -> g.st = "return"
              [] r.st = "break" -> g.st = "break" /\ g.cur = c
              [] r.st = "continue" /\ r.segs = <<>> -> g.st = "continue" /\ g.cur = c
              [] OTHER ->
                   IF r.segs[1].type = "index" /\ ~IsArray(c)
                   THEN g.st = "return"
                   ELSE g.st = "continue" /\ g.cur = At(c, <<PropName(r.segs[1])>>)

\* both loops have scanned to its end the same path, a quoted key with
\* whitespace before the closing bracket
C15_Witness ==
  /\ pc = "get_done"
  /\ setRet = "true"
  /\ scanEnd = "end"
  /\ i = Len(path)
  /\ segs = <<KeySeg(<<"\\">>)>>
  /\ path[Len(path) - 1] = " "

\* the container after differs from the container before at most in the
\* property or element called name, and in empty slots below that element
SameButFor(before, after, name) ==
  LET elem == after.t = "array" /\ IsArrayIndex(name)
      idx == IF elem THEN parseInt(name) ELSE 0
  IN /\ after.t = before.t
     /\ DOMAIN after.m \ {name} = DOMAIN before.m \ {name}
     /\ \A q \in DOMAIN before.m \ {name} : after.m[q] = before.m[q]
     /\ Len(after.e) =
          (IF elem /\ idx >= Len(before.e) THEN idx + 1 ELSE Len(before.e))
     /\ \A j \in 1..Len(after.e) :
          \/ elem /\ j = idx + 1
          \/ after.e[j] = (IF j <= Len(before.e) THEN before.e[j] ELSE Undef)

CursorAdvances ==
  pc \in {"get_loop", "set_scan"} =>
    /\ i <= i'
    /\ i' <= Len(path)
    /\ pc' = pc => i < i'

\* C17: termination in a single forward pass.  The scan loops of
\* getTinyJsonPath and setTinyJsonPath terminate; in every iteration the
\* cursor does not decrease and does not exceed the path length, and an
\* iteration that neither returns nor breaks advances it by at least one.
C17_SinglePass ==
  /\ [][CursorAdvances]_vars
  /\ (pc = "get_loop") ~> (pc = "get_done")
  /\ (pc = "set_scan") ~> (pc \in {"set_walk", "set_done"})

\* the tokenization loop ran three iterations and left at the end of the path
C17_Witness ==
  /\ pc = "set_done"
  /\ scanEnd = "end"
  /\ Len(segs) = 2
  /\ i = Len(path)

====
